---- MODULE Spec2Model ----
(***************************************************************************)
(* Model of the IBS wellness tracker's entry store (DataManager, local    *)
(* JSON file or Google Sheet) and of the analytics built on it             *)
(* (convert_to_dataframe, get_trigger_foods, get_statistics,               *)
(* get_processed_data).                                                    *)
(*                                                                         *)
(* Representation.  A Python str is the tuple of its character codes, so   *)
(* that string comparison (sort_index) is the lexicographic comparison of  *)
(* the codes.  A field value is Num(n) (n in tenths: 65 is 6.5),           *)
(* Str(s) or NaN.  A record (dict of one day) is a function from field     *)
(* names to values.  A dict keyed by date is an insertion-ordered          *)
(* sequence of [k, v] pairs with distinct keys.  A DataFrame is a record   *)
(* [index, cols, rows]; the order of the columns is not modelled, it       *)
(* decides nothing here.                                                   *)
(***************************************************************************)
EXTENDS Integers, Sequences, FiniteSets, TLC

\* ------------------------------------------------------------------ bounds
\* number of calendar days the user may log in the store specification
MaxDates == 2
\* number of consecutive days logged in the series specification
MaxDays == 8

\* ------------------------------------------------------------------ values
Num(n) == <<"num", n>>
Str(s) == <<"str", s>>
NaN == <<"nan">>
IsNum(v) == v[1] = "num"
IsStr(v) == v[1] = "str"
IsNaN(v) == v[1] = "nan"

\* "nan", what astype(str) makes of a missing cell
StrNan == <<110, 97, 110>>
\* a free-text diet note: "pizza"
pizza == <<112, 105, 122, 122, 97>>
\* a non-numeric entry in a numeric field: "bad"
bad == <<98, 97, 100>>
\* "No meals recorded"
NoMealsRecorded ==
  <<78, 111, 32, 109, 101, 97, 108, 115, 32, 114, 101, 99, 111, 114, 100, 101, 100>>

\* lexicographic comparison of two strings, as Python compares str
RECURSIVE StrLess(_, _)
StrLess(a, b) ==
  IF a = <<>> THEN b # <<>>
  ELSE IF b = <<>> THEN FALSE
  ELSE IF a[1] # b[1] THEN a[1] < b[1]
  ELSE StrLess(Tail(a), Tail(b))

\* ------------------------------------------------------------------- dates
\* the i-th day the user may log: 2024-01-02, 2024-01-09, 2024-01-10,
\* 2024-01-11, 2024-02-02, ...: 7, 1, 1 and 22 days apart
DayOfMonth(i) == CASE i % 4 = 1 -> 2 [] i % 4 = 2 -> 9 [] i % 4 = 3 -> 10 [] OTHER -> 11
Day(i) == [y |-> 2024, m |-> ((i - 1) \div 4) + 1, d |-> DayOfMonth(i)]

CalLess(a, b) ==
  \/ a.y < b.y
  \/ a.y = b.y /\ a.m < b.m
  \/ a.y = b.y /\ a.m = b.m /\ a.d < b.d

Digit(n) == 48 + n
\* %Y and %m / %d of strftime: zero padded to 4 and to 2 digits
Pad4(n) == <<Digit(n \div 1000), Digit((n \div 100) % 10),
             Digit((n \div 10) % 10), Digit(n % 10)>>
Pad2(n) == <<Digit(n \div 10), Digit(n % 10)>>
\* datetime.strftime("%Y-%m-%d")
strftime(dt) == Pad4(dt.y) \o <<45>> \o Pad2(dt.m) \o <<45>> \o Pad2(dt.d)

Key(i) == strftime(Day(i))

\* ------------------------------------------------------ insertion-ordered dict
Keys(od) == {od[i].k : i \in DOMAIN od}
Has(od, k) == k \in Keys(od)
Get(od, k) == od[CHOOSE i \in DOMAIN od : od[i].k = k].v
\* data[k] = v
Put(od, k, v) ==
  IF Has(od, k)
  THEN [i \in DOMAIN od |-> IF od[i].k = k THEN [k |-> k, v |-> v] ELSE od[i]]
  ELSE Append(od, [k |-> k, v |-> v])
\* del data[k]
Del(od, k) == SelectSeq(od, LAMBDA e : e.k # k)
\* data.get(k, {})
EmptyRecord == <<>>
GetOr(od, k, dflt) == IF Has(od, k) THEN Get(od, k) ELSE dflt
\* entry.get(f, dflt)
Field(rec, f, dflt) == IF f \in DOMAIN rec THEN rec[f] ELSE dflt
\* the mapping a dict denotes, whatever its insertion order
AsMap(od) == [k \in Keys(od) |-> Get(od, k)]

\* ----------------------------------------------------------------- records
\* the records a user may save under the date key k
Entry(k, t) ==
  CASE t = 1 -> [date |-> Str(k), symptom_severity |-> Num(80),
                 stress_level |-> Num(50), sleep_hours |-> Num(65),
                 diet_notes |-> Str(pizza)]
    [] t = 2 -> [date |-> Str(k), symptom_severity |-> Num(30)]
    [] t = 3 -> [symptom_severity |-> Num(70), sleep_hours |-> Num(65)]
Templates == 1..3
\* the records of the series specification: numeric, partly missing
SeriesEntry(k, t) ==
  CASE t = 1 -> [date |-> Str(k), symptom_severity |-> Num(20),
                 stress_level |-> Num(70), sleep_hours |-> Num(80)]
    [] t = 2 -> [date |-> Str(k), symptom_severity |-> Num(90),
                 stress_level |-> Num(30)]
    [] t = 3 -> [date |-> Str(k), stress_level |-> Str(bad),
                 sleep_hours |-> Num(65)]
SeriesTemplates == 1..3

\* ------------------------------------------------------------------- state
VARIABLES
  use_cloud,   \* DataManager.use_cloud
  file,        \* the local data file: [state, data]
  sheet,       \* worksheet "Sheet1": the rows of the stored DataFrame
  op,          \* the operation called last
  arg,         \* its arguments
  ret,         \* its outcome: [raised, value]
  last_save,   \* the save_data call made by it: [called, data, result]
  saved,       \* history, kept while all_ok: date -> record of the latest
               \*          save_entry not followed by a delete_entry
  all_ok,      \* history: every save_entry / delete_entry so far returned True
  sess         \* per browser session, the save_entry call it is in the middle of

vars == <<use_cloud, file, sheet, op, arg, ret, last_save, saved, all_ok, sess>>

Returned(v) == [raised |-> FALSE, value |-> v]
Raised == [raised |-> TRUE, value |-> <<>>]
NoArg == [none |-> TRUE]
NoSave == [called |-> FALSE, data |-> <<>>, result |-> FALSE]

EmptyDict == <<>>
ValidFile(data) == [state |-> "valid", data |-> data]
CorruptFile == [state |-> "corrupt", data |-> <<>>]
MissingFile == [state |-> "missing", data |-> <<>>]

\* ------------------------------------------------------------- pandas bits
\* pd.DataFrame(list_of_dicts): one row per dict, the columns are the union
\* of the keys, a key a dict lacks is NaN in its row
DataFrame(records) ==
  LET cols == UNION {DOMAIN records[i] : i \in DOMAIN records}
  IN  [i \in DOMAIN records |-> [c \in cols |-> Field(records[i], c, NaN)]]

Values(od) == [i \in DOMAIN od |-> od[i].v]

\* Series.astype(str) on one cell: a missing cell becomes "nan", text stays
astype_str(v) == IF IsNaN(v) THEN Str(StrNan) ELSE v

\* {row['date']: row for row in records}
RECURSIVE DictOfRows(_, _)
DictOfRows(rows, acc) ==
  IF rows = <<>> THEN acc
  ELSE DictOfRows(Tail(rows), Put(acc, Head(rows)["date"][2], Head(rows)))

\* --------------------------------------------------------------- load_data
\* conn.read(worksheet="Sheet1", ttl=0) and what follows it in the try block
ReadCloud(sh, netOk) ==
  IF ~netOk THEN Raised
  ELSE IF sh = <<>> THEN Returned(EmptyDict)
  ELSE IF "date" \notin DOMAIN sh[1] THEN Returned(EmptyDict)
  ELSE Returned(DictOfRows(
         [i \in DOMAIN sh |-> [sh[i] EXCEPT !["date"] = astype_str(@)]],
         EmptyDict))

\* open(self.data_file, 'r') and json.load(f).  json.dump / json.load keep
\* the order of the keys and the str, number and NaN values of a dict
ReadLocal(f) ==
  IF f.state = "valid" THEN Returned(f.data) ELSE Raised

load_data_NoExcept(uc, f, sh, netOk) ==
  IF uc THEN ReadCloud(sh, netOk) ELSE ReadLocal(f)

load_data(uc, f, sh, netOk) ==
  LET r == IF uc THEN ReadCloud(sh, netOk) ELSE ReadLocal(f)
  IN  IF r.raised THEN Returned(EmptyDict) ELSE r

\* --------------------------------------------------------------- save_data
\* outcome of the write: "ok"; "fail": conn.update or open() raises;
\* "partial": open(..., 'w') has truncated the file and json.dump raises
WriteOutcomes == {"ok", "fail", "partial"}

save_data(uc, f, sh, data, wOut) ==
  IF uc
  THEN IF wOut = "ok"
       THEN [file |-> f, sheet |-> DataFrame(Values(data)), result |-> TRUE]
       ELSE [file |-> f, sheet |-> sh, result |-> FALSE]
  ELSE CASE wOut = "ok" ->
              [file |-> ValidFile(data), sheet |-> sh, result |-> TRUE]
         [] wOut = "fail" ->
              [file |-> f, sheet |-> sh, result |-> FALSE]
         [] wOut = "partial" ->
              [file |-> CorruptFile, sheet |-> sh, result |-> FALSE]

\* the environment outcomes that make a difference in the current mode
EnvOk(netOk, wOut) ==
  /\ use_cloud => wOut # "partial"
  /\ ~use_cloud => netOk

\* ------------------------------------------------------------------ store
\* the browser sessions that run the script at the same time
Sessions == {1, 2}
\* a session that is not inside save_entry: nothing loaded.  A session inside
\* it holds the date it saves, the collection it has loaded and updated, and
\* (history) the dates the other sessions have saved since it loaded
IdleSession == [pc |-> "idle", date |-> <<>>, data |-> EmptyDict, others |-> {}]

\* the collection a load without read failure returns
Persisted == load_data(use_cloud, file, sheet, TRUE).value
\* the raw backing store
Store == IF use_cloud THEN sheet ELSE file

\* The state after the first DataManager(): the sheet is empty; the local
\* file holds {}, or is still missing when the write of {} failed
Init ==
  /\ use_cloud \in BOOLEAN
  /\ file \in IF use_cloud THEN {ValidFile(EmptyDict)}
              ELSE {ValidFile(EmptyDict), MissingFile}
  /\ sheet = <<>>
  /\ op = "init"
  /\ arg = NoArg
  /\ ret = Returned(TRUE)
  /\ last_save = NoSave
  /\ saved = <<>>
  /\ all_ok = TRUE
  /\ sess = [s \in Sessions |-> IdleSession]

MapPut(m, k, v) == [x \in DOMAIN m \cup {k} |-> IF x = k THEN v ELSE m[x]]
MapDel(m, k) == [x \in DOMAIN m \ {k} |-> m[x]]

\* DataManager.save_entry
save_entry(date, entry, netOk, wOut) ==
  /\ EnvOk(netOk, wOut)
  /\ LET ld == load_data(use_cloud, file, sheet, netOk)
         data == Put(ld.value, date, entry)
         sv == save_data(use_cloud, file, sheet, data, wOut)
     IN  IF ld.raised
         THEN /\ UNCHANGED <<file, sheet, saved, all_ok>>
              /\ ret' = Raised
              /\ last_save' = NoSave
         ELSE /\ file' = sv.file
              /\ sheet' = sv.sheet
              /\ ret' = Returned(sv.result)
              /\ last_save' = [called |-> TRUE, data |-> data, result |-> sv.result]
              /\ saved' = IF all_ok /\ sv.result THEN MapPut(saved, date, entry) ELSE <<>>
              /\ all_ok' = (all_ok /\ sv.result)
  /\ op' = "save_entry"
  /\ arg' = [date |-> date, entry |-> entry]
  /\ UNCHANGED <<use_cloud, sess>>

\* DataManager.delete_entry
delete_entry(date, netOk, wOut) ==
  /\ EnvOk(netOk, wOut)
  /\ LET ld == load_data(use_cloud, file, sheet, netOk)
         data == Del(ld.value, date)
         sv == save_data(use_cloud, file, sheet, data, wOut)
     IN  IF ld.raised
         THEN /\ UNCHANGED <<file, sheet, saved, all_ok>>
              /\ ret' = Raised
              /\ last_save' = NoSave
         ELSE IF Has(ld.value, date)
         THEN /\ file' = sv.file
              /\ sheet' = sv.sheet
              /\ ret' = Returned(sv.result)
              /\ last_save' = [called |-> TRUE, data |-> data, result |-> sv.result]
              /\ saved' = IF all_ok /\ sv.result THEN MapDel(saved, date) ELSE <<>>
              /\ all_ok' = (all_ok /\ sv.result)
         ELSE /\ wOut = "ok"
              /\ UNCHANGED <<file, sheet>>
              /\ ret' = Returned(FALSE)
              /\ last_save' = NoSave
              /\ saved' = <<>>
              /\ all_ok' = FALSE
  /\ op' = "delete_entry"
  /\ arg' = [date |-> date]
  /\ UNCHANGED <<use_cloud, sess>>

\* DataManager.get_entry
get_entry(date, netOk) ==
  /\ EnvOk(netOk, "ok")
  /\ LET ld == load_data(use_cloud, file, sheet, netOk)
     IN  ret' = IF ld.raised THEN Raised
                ELSE Returned(GetOr(ld.value, date, EmptyRecord))
  /\ op' = "get_entry"
  /\ arg' = [date |-> date, netOk |-> netOk]
  /\ last_save' = NoSave
  /\ UNCHANGED <<use_cloud, file, sheet, saved, all_ok, sess>>

\* DataManager.load_data called on its own
load(netOk) ==
  /\ EnvOk(netOk, "ok")
  /\ ret' = load_data(use_cloud, file, sheet, netOk)
  /\ op' = "load_data"
  /\ arg' = [netOk |-> netOk]
  /\ last_save' = NoSave
  /\ UNCHANGED <<use_cloud, file, sheet, saved, all_ok, sess>>

\* DataManager.__init__ of a later run of the script: _ensure_data_file
construct_AlwaysReset(wOut) ==
  /\ EnvOk(TRUE, wOut)
  /\ IF use_cloud
     THEN /\ wOut = "ok"
          /\ UNCHANGED <<file, sheet>>
          /\ last_save' = NoSave
     ELSE LET sv == save_data(use_cloud, MissingFile, sheet, EmptyDict, wOut)
          IN  /\ file' = sv.file
              /\ sheet' = sv.sheet
              /\ last_save' = [called |-> TRUE, data |-> EmptyDict, result |-> sv.result]
  /\ ret' = Returned(TRUE)
  /\ op' = "construct"
  /\ arg' = NoArg
  /\ UNCHANGED <<use_cloud, saved, all_ok, sess>>

construct(wOut) ==
  /\ EnvOk(TRUE, wOut)
  /\ IF use_cloud \/ file.state = "valid"
     THEN /\ wOut = "ok"
          /\ UNCHANGED <<file, sheet>>
          /\ last_save' = NoSave
     ELSE \* a corrupted file is renamed to .bak first: the file is missing
          LET sv == save_data(use_cloud, MissingFile, sheet, EmptyDict, wOut)
          IN  /\ file' = sv.file
              /\ sheet' = sv.sheet
              /\ last_save' = [called |-> TRUE, data |-> EmptyDict, result |-> sv.result]
  /\ ret' = Returned(TRUE)
  /\ op' = "construct"
  /\ arg' = NoArg
  /\ UNCHANGED <<use_cloud, saved, all_ok, sess>>

\* --------------------------------------------------------------- utils.py
\* DataFrame.sort_index(): the rows in ascending order of the index strings
RECURSIVE InsertRow(_, _)
InsertRow(e, sorted) ==
  IF sorted = <<>> THEN <<e>>
  ELSE IF StrLess(e.k, Head(sorted).k) THEN <<e>> \o sorted
  ELSE <<Head(sorted)>> \o InsertRow(e, Tail(sorted))

RECURSIVE sort_index(_)
sort_index(t) ==
  IF t = <<>> THEN <<>> ELSE InsertRow(Head(t), sort_index(Tail(t)))

\* pd.DataFrame.from_dict(data, orient='index'): the keys are the index.
\* A table is the sequence of its rows [k: index, v: cells]
from_dict(data) ==
  LET rows == DataFrame(Values(data))
  IN  [i \in DOMAIN data |-> [k |-> data[i].k, v |-> rows[i]]]

convert_to_dataframe_Unsorted(data) ==
  IF data = <<>> THEN <<>> ELSE from_dict(data)

convert_to_dataframe(data) ==
  IF data = <<>> THEN <<>> ELSE sort_index(from_dict(data))

Columns(t) == IF t = <<>> THEN {} ELSE DOMAIN t[1].v
\* the cell of row i in column c; a column the table lacks has no value
Cell(t, i, c) == IF c \in Columns(t) THEN t[i].v[c] ELSE NaN

DefaultThreshold == 6

\* get_trigger_foods(data, threshold): entry.get("symptom_severity", 0) >=
\* threshold raises TypeError on a str, is False on NaN
HighDay(entry, threshold) ==
  LET sev == Field(entry, "symptom_severity", Num(0))
  IN  IsNum(sev) /\ sev[2] >= 10 * threshold

RECURSIVE TriggerScan(_, _, _, _)
TriggerScan(data, threshold, field, acc) ==
  IF data = <<>> THEN acc
  ELSE LET e == Head(data)
       IN  TriggerScan(Tail(data), threshold, field,
             IF HighDay(e.v, threshold)
             THEN Put(acc, e.k, Field(e.v, field, Str(NoMealsRecorded)))
             ELSE acc)

get_trigger_foods_DietNotes(data, threshold) ==
  IF \E i \in DOMAIN data : IsStr(Field(data[i].v, "symptom_severity", Num(0)))
  THEN Raised
  ELSE Returned(TriggerScan(data, threshold, "diet_notes", EmptyDict))

get_trigger_foods(data, threshold) ==
  IF \E i \in DOMAIN data : IsStr(Field(data[i].v, "symptom_severity", Num(0)))
  THEN Raised
  ELSE Returned(TriggerScan(data, threshold, "meals", EmptyDict))

\* ---------------------------------------------------------- get_statistics
RECURSIVE SumSeq(_)
SumSeq(s) == IF s = <<>> THEN 0 ELSE Head(s) + SumSeq(Tail(s))

\* round(a / b, 1) in tenths, for a >= 0 in tenths.  The values of the model
\* are multiples of 0.5, so the sums are exact and a tie is an exact binary
\* fraction, which round() sends to the even neighbour
Round1(a, b) ==
  LET q == a \div b
      r == a % b
  IN  IF 2 * r < b THEN q
      ELSE IF 2 * r > b THEN q + 1
      ELSE IF q % 2 = 0 THEN q ELSE q + 1

\* sum(float(d.get(f, 0)) for d in data.values()) / total_entries, rounded
Average(data, f) ==
  LET vals == [i \in DOMAIN data |-> Field(data[i].v, f, Num(0))]
  IN  IF \E i \in DOMAIN vals : IsNaN(vals[i]) THEN NaN
      ELSE Num(Round1(SumSeq([i \in DOMAIN vals |-> vals[i][2]]), Len(data)))

StatFields == {"symptom_severity", "sleep_hours", "stress_level"}

get_statistics_NoGuard(data) ==
  IF data = <<>>
  THEN Raised  \* total_entries = 0: ZeroDivisionError
  ELSE IF \E i \in DOMAIN data, f \in StatFields : IsStr(Field(data[i].v, f, Num(0)))
  THEN Raised
  ELSE Returned([avg_severity |-> Average(data, "symptom_severity"),
                 avg_sleep |-> Average(data, "sleep_hours"),
                 avg_stress |-> Average(data, "stress_level")])

get_statistics(data) ==
  IF data = <<>>
  THEN Returned([avg_severity |-> Num(0), avg_sleep |-> Num(0), avg_stress |-> Num(0)])
  ELSE IF \E i \in DOMAIN data, f \in StatFields : IsStr(Field(data[i].v, f, Num(0)))
  THEN Raised  \* float("bad"): ValueError
  ELSE Returned([avg_severity |-> Average(data, "symptom_severity"),
                 avg_sleep |-> Average(data, "sleep_hours"),
                 avg_stress |-> Average(data, "stress_level")])

\* ------------------------------------------------------ get_processed_data
\* pd.to_numeric(errors='coerce') on one cell
to_numeric(v) == IF IsNum(v) THEN v ELSE NaN

cols_to_numeric == {"symptom_severity", "sleep_hours", "stress_level", "exercise"}

Coerce(t) ==
  [i \in DOMAIN t |->
     [k |-> t[i].k,
      v |-> [c \in DOMAIN t[i].v |->
               IF c \in cols_to_numeric THEN to_numeric(t[i].v[c]) ELSE t[i].v[c]]]]

Window == 7
MinPeriods == 1
MinRowsForRolling == 3

Max(a, b) == IF a > b THEN a ELSE b

\* the rows of the trailing window of row i that hold a value in column c
WindowRows_Wide(t, c, i) ==
  {j \in Max(1, i - Window)..i : ~IsNaN(t[j].v[c])}

WindowRows(t, c, i) ==
  {j \in Max(1, i - Window + 1)..i : ~IsNaN(t[j].v[c])}

RECURSIVE SumCells(_, _, _)
SumCells(t, c, js) ==
  IF js = {} THEN 0
  ELSE LET j == CHOOSE x \in js : TRUE
       IN  t[j].v[c][2] + SumCells(t, c, js \ {j})

\* Series.rolling(window=7, min_periods=1).mean() at row i.  The mean is
\* kept exact, as <<"avg", sum, count>>
RollingMean_Expanding(t, c, i) ==
  LET js == {j \in 1..i : ~IsNaN(t[j].v[c])}
  IN  IF Cardinality(js) >= MinPeriods
      THEN <<"avg", SumCells(t, c, js), Cardinality(js)>>
      ELSE NaN

RollingMean(t, c, i) ==
  LET js == WindowRows(t, c, i)
  IN  IF Cardinality(js) >= MinPeriods
      THEN <<"avg", SumCells(t, c, js), Cardinality(js)>>
      ELSE NaN

\* Series.shift(1) at row i
Shift1_Forward(t, c, i) == IF i = Len(t) THEN NaN ELSE t[i + 1].v[c]

Shift1(t, c, i) == IF i = 1 THEN NaN ELSE t[i - 1].v[c]

\* df['severity_7d_avg'] = ...; df['stress_7d_avg'] = ...
AddRolling(t) ==
  [i \in DOMAIN t |->
     [k |-> t[i].k,
      v |-> [c \in DOMAIN t[i].v \cup {"severity_7d_avg", "stress_7d_avg"} |->
               CASE c = "severity_7d_avg" -> RollingMean(t, "symptom_severity", i)
                 [] c = "stress_7d_avg" -> RollingMean(t, "stress_level", i)
                 [] OTHER -> t[i].v[c]]]]

\* if c in df.columns: df[new] = df[c].shift(1)
AddLag(t, c, new) ==
  IF c \in Columns(t)
  THEN [i \in DOMAIN t |->
          [k |-> t[i].k,
           v |-> [x \in DOMAIN t[i].v \cup {new} |->
                    IF x = new THEN Shift1(t, c, i) ELSE t[i].v[x]]]]
  ELSE t

AddLags(t) ==
  AddLag(AddLag(AddLag(t, "stress_level", "stress_lag1"),
                "sleep_hours", "sleep_lag1"),
         "symptom_severity", "severity_lag1")

get_processed_data(data) ==
  LET df == convert_to_dataframe(data)
      num == Coerce(df)
  IN  IF df = <<>> THEN Returned(df)
      ELSE IF Len(num) >= MinRowsForRolling
      THEN IF {"symptom_severity", "stress_level"} \subseteq Columns(num)
           THEN Returned(AddLags(AddRolling(num)))
           ELSE Raised  \* df['symptom_severity']: KeyError
      ELSE Returned(AddLags(num))

\* ---------------------------------------------------------- get_date_range
\* the days of the months of 2024
MonthDays == <<31, 29, 31, 30, 31, 30, 31, 31, 30, 31, 30, 31>>

RECURSIVE DaysBefore(_)
DaysBefore(m) == IF m = 1 THEN 0 ELSE MonthDays[m - 1] + DaysBefore(m - 1)

\* the number of a day within 2024, and the day of a number; a number
\* below 1 is a day of December 2023
Ordinal(dt) == DaysBefore(dt.m) + dt.d
FromOrdinal(n) ==
  IF n < 1 THEN [y |-> 2023, m |-> 12, d |-> 31 + n]
  ELSE LET m == CHOOSE x \in 1..12 : DaysBefore(x) < n /\ n <= DaysBefore(x) + MonthDays[x]
       IN  [y |-> 2024, m |-> m, d |-> n - DaysBefore(m)]

\* utils.get_date_range(days) on the day `today`: today first, then back
get_date_range(days, today) ==
  [i \in 1..days |-> strftime(FromOrdinal(today - (i - 1)))]

\* {d: data.get(d) for d in dates if d in data}
RECURSIVE PickDates(_, _)
PickDates(data, dates) ==
  IF dates = <<>> THEN EmptyDict
  ELSE IF Has(data, Head(dates))
  THEN <<[k |-> Head(dates), v |-> Get(data, Head(dates))]>> \o PickDates(data, Tail(dates))
  ELSE PickDates(data, Tail(dates))

\* DataManager.get_date_range(days) on what load_data returned
DataManager_get_date_range(data, days, today) ==
  PickDates(data, get_date_range(days, today))

\* -------------------------------------------------------- visualizations.py
\* _create_empty_figure(message)
EmptyFigure(message) == [kind |-> "empty", text |-> message]

\* the rows that hold a number in both columns
CompleteRows(t, a, b) == {i \in DOMAIN t : IsNum(Cell(t, i, a)) /\ IsNum(Cell(t, i, b))}

RECURSIVE SumProducts(_, _, _, _)
SumProducts(t, a, b, js) ==
  IF js = {} THEN 0
  ELSE LET j == CHOOSE x \in js : TRUE
       IN  t[j].v[a][2] * t[j].v[b][2] + SumProducts(t, a, b, js \ {j})

\* DataFrame.corr() for the columns a and b: Pearson's r over the rows
\* complete in both, kept exact as <<"corr", cov, var_a, var_b>> with
\* r = cov / sqrt(var_a * var_b); NaN when a variance is zero or fewer than
\* two rows are complete
Pearson(t, a, b) ==
  LET js == CompleteRows(t, a, b)
      n  == Cardinality(js)
      sa == SumCells(t, a, js)
      sb == SumCells(t, b, js)
      va == n * SumProducts(t, a, a, js) - sa * sa
      vb == n * SumProducts(t, b, b, js) - sb * sb
  IN  IF n < 2 \/ va = 0 \/ vb = 0 THEN NaN
      ELSE <<"corr", n * SumProducts(t, a, b, js) - sa * sb, va, vb>>

MinRowsForCorrelation == 3
MinMetrics == 2
HeatmapCols ==
  <<"symptom_severity", "sleep_hours", "sleep_quality", "stress_level", "exercise">>

\* the columns pandas holds as objects: some cell is a string
ObjectColumns(t, cs) == {c \in cs : \E i \in DOMAIN t : IsStr(Cell(t, i, c))}

\* Visualizer.create_correlation_heatmap.  data.corr() on a column of
\* objects raises in pandas 2 and drops the column in pandas 1
create_correlation_heatmap(data, numericOnly) ==
  IF data = <<>> \/ Len(data) < MinRowsForCorrelation
  THEN Returned(EmptyFigure("Needs more data for correlation"))
  ELSE LET valid_cols == SelectSeq(HeatmapCols, LAMBDA c : c \in Columns(data))
           valid == {valid_cols[i] : i \in DOMAIN valid_cols}
           num == valid \ ObjectColumns(data, valid)
       IN  IF Len(valid_cols) < MinMetrics
           THEN Returned(EmptyFigure("Not enough metrics for correlation"))
           ELSE IF num # valid /\ ~numericOnly
           THEN Raised
           ELSE Returned([kind |-> "heatmap", x |-> valid_cols,
                          z |-> [a \in num, b \in num |-> Pearson(data, a, b)]])

\* the candidates of the lag analysis: label and column, in order
Features ==
  <<[label |-> "Stress (Today)", col |-> "stress_level"],
    [label |-> "Stress (Yesterday)", col |-> "stress_lag1"],
    [label |-> "Sleep (Hours Today)", col |-> "sleep_hours"],
    [label |-> "Sleep (Yesterday)", col |-> "sleep_lag1"]>>

\* correlations[label] = corr, for the candidates whose column exists
RECURSIVE Correlate(_, _, _)
Correlate(data, target, fs) ==
  IF fs = <<>> THEN EmptyDict
  ELSE IF Head(fs).col \in Columns(data)
  THEN <<[k |-> Head(fs).label, v |-> Pearson(data, target, Head(fs).col)]>>
       \o Correlate(data, target, Tail(fs))
  ELSE Correlate(data, target, Tail(fs))

\* Visualizer.create_lagged_correlation_chart
create_lagged_correlation_chart(data) ==
  IF data = <<>> \/ Len(data) < MinRowsForCorrelation
  THEN EmptyFigure("Need more data for lag analysis")
  ELSE IF "symptom_severity" \notin Columns(data)
  THEN EmptyFigure("No symptom data")
  ELSE LET correlations == Correlate(data, "symptom_severity", Features)
       IN  IF correlations = EmptyDict
           THEN EmptyFigure("Not enough matched data")
           ELSE [kind |-> "bar", correlations |-> correlations]

\* ------------------------------------------------- analytics as operations
\* convert_to_dataframe applied to what load_data returns
call_convert_to_dataframe(netOk) ==
  /\ EnvOk(netOk, "ok")
  /\ LET ld == load_data(use_cloud, file, sheet, netOk)
     IN  ret' = IF ld.raised THEN Raised
                ELSE Returned(convert_to_dataframe(ld.value))
  /\ op' = "convert_to_dataframe"
  /\ arg' = [netOk |-> netOk]
  /\ last_save' = NoSave
  /\ UNCHANGED <<use_cloud, file, sheet, saved, all_ok, sess>>

\* get_trigger_foods applied to what load_data returns
call_get_trigger_foods(threshold, netOk) ==
  /\ EnvOk(netOk, "ok")
  /\ LET ld == load_data(use_cloud, file, sheet, netOk)
     IN  ret' = IF ld.raised THEN Raised
                ELSE get_trigger_foods(ld.value, threshold)
  /\ op' = "get_trigger_foods"
  /\ arg' = [threshold |-> threshold, netOk |-> netOk]
  /\ last_save' = NoSave
  /\ UNCHANGED <<use_cloud, file, sheet, saved, all_ok, sess>>

\* DataManager.get_statistics
call_get_statistics(netOk) ==
  /\ EnvOk(netOk, "ok")
  /\ LET ld == load_data(use_cloud, file, sheet, netOk)
     IN  ret' = IF ld.raised THEN Raised ELSE get_statistics(ld.value)
  /\ op' = "get_statistics"
  /\ arg' = [netOk |-> netOk]
  /\ last_save' = NoSave
  /\ UNCHANGED <<use_cloud, file, sheet, saved, all_ok, sess>>

\* DataManager.get_processed_data
call_get_processed_data(netOk) ==
  /\ EnvOk(netOk, "ok")
  /\ LET ld == load_data(use_cloud, file, sheet, netOk)
     IN  ret' = IF ld.raised THEN Raised ELSE get_processed_data(ld.value)
  /\ op' = "get_processed_data"
  /\ arg' = [netOk |-> netOk]
  /\ last_save' = NoSave
  /\ UNCHANGED <<use_cloud, file, sheet, saved, all_ok, sess>>

\* DataManager.get_date_range
call_get_date_range(days, today, netOk) ==
  /\ EnvOk(netOk, "ok")
  /\ LET ld == load_data(use_cloud, file, sheet, netOk)
     IN  ret' = IF ld.raised THEN Raised
                ELSE Returned(DataManager_get_date_range(ld.value, days, today))
  /\ op' = "get_date_range"
  /\ arg' = [days |-> days, today |-> today, netOk |-> netOk]
  /\ last_save' = NoSave
  /\ UNCHANGED <<use_cloud, file, sheet, saved, all_ok, sess>>

\* create_lagged_correlation_chart applied to what get_processed_data returns
call_create_lagged_correlation_chart(netOk) ==
  /\ EnvOk(netOk, "ok")
  /\ LET ld == load_data(use_cloud, file, sheet, netOk)
         processed == IF ld.raised THEN Raised ELSE get_processed_data(ld.value)
     IN  ret' = IF processed.raised THEN Raised
                ELSE Returned(create_lagged_correlation_chart(processed.value))
  /\ op' = "create_lagged_correlation_chart"
  /\ arg' = [netOk |-> netOk]
  /\ last_save' = NoSave
  /\ UNCHANGED <<use_cloud, file, sheet, saved, all_ok, sess>>

\* the days page_analytics charts
AnalyticsDays == 8
\* the lag analysis is not drawn for an empty table
Skipped == [kind |-> "skipped"]

\* app.page_analytics on the day `today`: the statistics, the table of the
\* last 8 days, the processed table of all days, the lag analysis of the
\* latter, the heatmap of the former, the triggers of the last 8 days.  An
\* exception of any of them ends the page
page_analytics(today, netOk1, netOk2, netOk3, numericOnly) ==
  /\ EnvOk(netOk1, "ok") /\ EnvOk(netOk2, "ok") /\ EnvOk(netOk3, "ok")
  /\ LET ld1 == load_data(use_cloud, file, sheet, netOk1)
         ld2 == load_data(use_cloud, file, sheet, netOk2)
         ld3 == load_data(use_cloud, file, sheet, netOk3)
         stats == IF ld1.raised THEN Raised ELSE get_statistics(ld1.value)
         range_data == IF ld2.raised THEN EmptyDict
                       ELSE DataManager_get_date_range(ld2.value, AnalyticsDays, today)
         df == convert_to_dataframe(range_data)
         processed_df == IF ld3.raised THEN Raised ELSE get_processed_data(ld3.value)
         heatmap == create_correlation_heatmap(df, numericOnly)
         triggers == get_trigger_foods(range_data, DefaultThreshold)
     IN  ret' = IF \/ stats.raised \/ ld2.raised \/ processed_df.raised
                   \/ heatmap.raised \/ triggers.raised
                THEN Raised
                ELSE Returned([stats |-> stats.value,
                               lagged |-> IF processed_df.value = <<>> THEN Skipped
                                          ELSE create_lagged_correlation_chart(processed_df.value),
                               heatmap |-> heatmap.value,
                               triggers |-> triggers.value])
  /\ op' = "page_analytics"
  /\ arg' = [today |-> today, netOk |-> netOk1, netOk2 |-> netOk2, netOk3 |-> netOk3,
             numericOnly |-> numericOnly]
  /\ last_save' = NoSave
  /\ UNCHANGED <<use_cloud, file, sheet, saved, all_ok, sess>>

Thresholds == {3, DefaultThreshold, 8}

DateKeys == {Key(i) : i \in 1..MaxDates}

\* the windows asked for: the week of the AI analysis, the days of the charts
RangeDays == {7, AnalyticsDays}
\* the day on which the user looks at the data: the latest day that can be
\* logged
Todays == {Ordinal(Day(MaxDates))}

Next ==
  \/ \E k \in DateKeys, t \in Templates, netOk \in BOOLEAN, wOut \in WriteOutcomes :
       save_entry(k, Entry(k, t), netOk, wOut)
  \/ \E k \in DateKeys, netOk \in BOOLEAN, wOut \in WriteOutcomes :
       delete_entry(k, netOk, wOut)
  \/ \E k \in DateKeys, netOk \in BOOLEAN : get_entry(k, netOk)
  \/ \E netOk \in BOOLEAN : load(netOk)
  \/ \E wOut \in WriteOutcomes : construct(wOut)
  \/ \E netOk \in BOOLEAN : call_convert_to_dataframe(netOk)
  \/ \E th \in Thresholds, netOk \in BOOLEAN : call_get_trigger_foods(th, netOk)
  \/ \E netOk \in BOOLEAN : call_get_statistics(netOk)
  \/ \E netOk \in BOOLEAN : call_get_processed_data(netOk)
  \/ \E days \in RangeDays, today \in Todays, netOk \in BOOLEAN :
       call_get_date_range(days, today, netOk)

Spec == Init /\ [][Next]_vars

\* ------------------------------------------------- the series specification
\* One user logging day after day in the local file, no failure: the days
\* are entered latest first, so that the table has to be sorted
InitSeries ==
  /\ Init
  /\ use_cloud = FALSE
  /\ file = ValidFile(EmptyDict)

NextDayKey == Key(MaxDays - Len(file.data))

NextSeries ==
  \/ /\ file.state = "valid"
     /\ Len(file.data) < MaxDays
     /\ \E t \in SeriesTemplates :
          save_entry(NextDayKey, SeriesEntry(NextDayKey, t), TRUE, "ok")
  \/ call_get_processed_data(TRUE)
  \/ call_get_statistics(TRUE)

SpecSeries == InitSeries /\ [][NextSeries]_vars

\* --------------------------------------------------- the page specification
\* The same user opening the analytics page.  The days on which the page is
\* opened: the latest logged day, the day before it, and a week later
PageTodays ==
  {Ordinal(Day(MaxDays)) + 7, Ordinal(Day(MaxDays)), Ordinal(Day(MaxDays - 1))}

NextPage ==
  \/ /\ file.state = "valid"
     /\ Len(file.data) < MaxDays
     /\ \E t \in SeriesTemplates :
          save_entry(NextDayKey, SeriesEntry(NextDayKey, t), TRUE, "ok")
  \/ call_create_lagged_correlation_chart(TRUE)
  \/ \E today \in PageTodays, numericOnly \in BOOLEAN :
       page_analytics(today, TRUE, TRUE, TRUE, numericOnly)

SpecPage == InitSeries /\ [][NextPage]_vars

\* ------------------------------------------------- the sessions specification
\* Two browser sessions of the application over one store.  save_entry is a
\* load_data call and, later, a save_data call; the calls of the sessions
\* interleave, each call being one step

\* DataManager.save_entry of session s, up to data[date] = entry
save_entry_load(s, date, entry, netOk) ==
  /\ sess[s].pc = "idle"
  /\ EnvOk(netOk, "ok")
  /\ LET ld == load_data(use_cloud, file, sheet, netOk)
     IN  /\ ret' = IF ld.raised THEN Raised ELSE Returned(TRUE)
         /\ sess' = IF ld.raised THEN sess
                    ELSE [sess EXCEPT ![s] = [pc |-> "loaded", date |-> date,
                                              data |-> Put(ld.value, date, entry),
                                              others |-> {}]]
  /\ op' = "save_entry_load"
  /\ arg' = [session |-> s, date |-> date, entry |-> entry]
  /\ last_save' = NoSave
  /\ UNCHANGED <<use_cloud, file, sheet, saved, all_ok>>

\* the sessions after session s has written with the given result
AfterSave(s, result) ==
  [t \in Sessions |->
     IF t = s THEN IdleSession
     ELSE IF result /\ sess[t].pc = "loaded"
     THEN [sess[t] EXCEPT !.others = @ \cup {sess[s].date}]
     ELSE sess[t]]

\* the end of save_entry with a load of its own just before the write
save_entry_save_Reload(s, wOut) ==
  /\ sess[s].pc = "loaded"
  /\ EnvOk(TRUE, wOut)
  /\ LET data == Put(load_data(use_cloud, file, sheet, TRUE).value, sess[s].date,
                     Get(sess[s].data, sess[s].date))
         sv == save_data(use_cloud, file, sheet, data, wOut)
     IN  /\ file' = sv.file
         /\ sheet' = sv.sheet
         /\ ret' = Returned(sv.result)
         /\ last_save' = [called |-> TRUE, data |-> data, result |-> sv.result]
         /\ saved' = IF all_ok /\ sv.result
                     THEN MapPut(saved, sess[s].date, Get(sess[s].data, sess[s].date))
                     ELSE <<>>
         /\ all_ok' = (all_ok /\ sv.result)
         /\ sess' = AfterSave(s, sv.result)
  /\ op' = "save_entry_save"
  /\ arg' = [session |-> s, date |-> sess[s].date, data |-> sess[s].data,
             others |-> sess[s].others]
  /\ UNCHANGED use_cloud

\* DataManager.save_entry of session s, from save_data(data) on
save_entry_save(s, wOut) ==
  /\ sess[s].pc = "loaded"
  /\ EnvOk(TRUE, wOut)
  /\ LET data == sess[s].data
         sv == save_data(use_cloud, file, sheet, data, wOut)
     IN  /\ file' = sv.file
         /\ sheet' = sv.sheet
         /\ ret' = Returned(sv.result)
         /\ last_save' = [called |-> TRUE, data |-> data, result |-> sv.result]
         /\ saved' = IF all_ok /\ sv.result
                     THEN MapPut(saved, sess[s].date, Get(sess[s].data, sess[s].date))
                     ELSE <<>>
         /\ all_ok' = (all_ok /\ sv.result)
         /\ sess' = AfterSave(s, sv.result)
  /\ op' = "save_entry_save"
  /\ arg' = [session |-> s, date |-> sess[s].date, data |-> sess[s].data,
             others |-> sess[s].others]
  /\ UNCHANGED use_cloud

\* the dates and the records the sessions save
SessionKeys == {Key(1), Key(2)}
SessionTemplates == {1, 2}

NextSessions ==
  \/ \E s \in Sessions, k \in SessionKeys, t \in SessionTemplates, netOk \in BOOLEAN :
       save_entry_load(s, k, Entry(k, t), netOk)
  \/ \E s \in Sessions, wOut \in WriteOutcomes : save_entry_save(s, wOut)

SpecSessions == Init /\ [][NextSessions]_vars

\* ------------------------------------------------------------ ai_analysis.py
\* The text of a response is a sequence of tokens: the two code fences (three
\* backticks followed by json, three backticks), white space, prose, and JSON
\* documents
FenceJson == "fence_json"
Fence == "fence"
Space == " "
Prose == "prose"
\* the JSON documents the service may answer with: the object of the daily
\* prompt, the object of the weekly prompt, another object, an array
Documents == {"daily", "weekly", "other", "array"}
Tokens == {FenceJson, Fence, Space, Prose} \cup Documents

MaxContent == 3
Contents == UNION {[1..n -> Tokens] : n \in 0..MaxContent}

\* what json.loads makes of a document
DailyKeys == {"wellness_score", "summary", "triggers", "recommendations"}
WeeklyKeys == {"wellness_score", "trend_analysis", "identified_triggers", "recommendations"}
Object(keys, error) == [json |-> "object", keys |-> keys, error |-> error]
Parse(doc) ==
  CASE doc = "daily" -> Object(DailyKeys, "")
    [] doc = "weekly" -> Object(WeeklyKeys, "")
    [] doc = "other" -> Object({"status"}, "")
    [] doc = "array" -> [json |-> "array", keys |-> {}, error |-> ""]

\* content.replace(old, "")
Replace(content, old) == SelectSeq(content, LAMBDA t : t # old)

\* str.strip()
RECURSIVE LStrip(_)
LStrip(content) ==
  IF content # <<>> /\ Head(content) = Space THEN LStrip(Tail(content)) ELSE content
RECURSIVE RStrip(_)
RStrip(content) ==
  IF content # <<>> /\ content[Len(content)] = Space
  THEN RStrip(SubSeq(content, 1, Len(content) - 1)) ELSE content
Strip(content) == RStrip(LStrip(content))

\* content.replace(fence_json, "").replace(fence, "").strip()
Cleaned(content) == Strip(Replace(Replace(content, FenceJson), Fence))

\* json.loads succeeds on exactly one document
Parses(cleaned) == Len(cleaned) = 1 /\ cleaned[1] \in Documents

\* the outcomes of client.chat.completions.create: a response, a TypeError
\* (a client that does not know the keyword), another exception
CreateOutcomes == {"response", "TypeError", "error"}
\* the content of a response: a text, None, or no choice at all
NoneContent == [kind |-> "none", text |-> <<>>]
NoChoice == [kind |-> "nochoice", text |-> <<>>]
Text(content) == [kind |-> "text", text |-> content]
Responses == {NoneContent, NoChoice} \cup {Text(c) : c \in Contents}

Failure(error) == Object({"error", "message"}, error)
ParsingFailure == Object({"error", "raw_content", "message"}, "Parsing Error")

\* the inner try of _call_openai on a response
ParseResponse(response) ==
  IF response.kind # "text"
  THEN Failure("API Error")  \* IndexError, AttributeError: the outer except
  ELSE IF Parses(Cleaned(response.text)) THEN Parse(Cleaned(response.text)[1])
  ELSE ParsingFailure

\* AIAnalyzer._call_openai: hasKey is whether the module built a client,
\* first and second the outcomes of the call and of its fallback
call_openai(hasKey, first, second, response) ==
  IF ~hasKey THEN Failure("API Key Missing")
  ELSE IF first = "response" THEN ParseResponse(response)
  ELSE IF first = "TypeError" /\ second = "response" THEN ParseResponse(response)
  ELSE Failure("API Error")

\* the inputs that the call does not read take one value
AIInputs(hasKey, first, second, response) ==
  /\ ~hasKey => first = "error"
  /\ first # "TypeError" => second = "error"
  /\ (first # "response" /\ second # "response") => response = NoChoice

\* str.format of the prompt with the data: the prompt sent
Prompt(mode, data) == [mode |-> mode, data |-> data]

\* AIAnalyzer.analyze_daily
analyze_daily(data, hasKey, first, second, response) ==
  /\ AIInputs(hasKey, first, second, response)
  /\ ret' = Returned(call_openai(hasKey, first, second, response))
  /\ op' = "analyze_daily"
  /\ arg' = [prompt |-> Prompt("daily", data), hasKey |-> hasKey, first |-> first,
             second |-> second, response |-> response]
  /\ last_save' = NoSave
  /\ UNCHANGED <<use_cloud, file, sheet, saved, all_ok, sess>>

\* AIAnalyzer.analyze_weekly
analyze_weekly(data, hasKey, first, second, response) ==
  /\ AIInputs(hasKey, first, second, response)
  /\ ret' = Returned(call_openai(hasKey, first, second, response))
  /\ op' = "analyze_weekly"
  /\ arg' = [prompt |-> Prompt("weekly", data), hasKey |-> hasKey, first |-> first,
             second |-> second, response |-> response]
  /\ last_save' = NoSave
  /\ UNCHANGED <<use_cloud, file, sheet, saved, all_ok, sess>>

\* what page_ai_analysis hands over: the entry of today, the last 7 days
DailyData == {Entry(Key(1), 1)}
WeeklyData == {<<[k |-> Key(1), v |-> Entry(Key(1), 1)]>>}

NextAI ==
  \/ \E data \in DailyData, hasKey \in BOOLEAN, first, second \in CreateOutcomes,
        response \in Responses :
       analyze_daily(data, hasKey, first, second, response)
  \/ \E data \in WeeklyData, hasKey \in BOOLEAN, first, second \in CreateOutcomes,
        response \in Responses :
       analyze_weekly(data, hasKey, first, second, response)

SpecAI == InitSeries /\ [][NextAI]_vars

\* ------------------------------------------------------------------ claims
\* what the load of the last read-only operation returned
Loaded == IF use_cloud /\ ~arg.netOk THEN EmptyDict ELSE Persisted

\* the calendar date a date key was formatted from
IsDateKey(k) == \E i \in 1..(MaxDates + MaxDays) : Key(i) = k
DateOf(k) == Day(CHOOSE i \in 1..(MaxDates + MaxDays) : Key(i) = k)

\* C1: after successful save_entry and delete_entry calls only, a get_entry(d)
\* that reaches the store returns the record of the latest save_entry(d) that
\* no delete_entry(d) followed, field for field, and {} when there is none
C1_RoundTrip ==
  (op = "get_entry" /\ all_ok /\ arg.netOk) =>
    /\ ~ret.raised
    /\ ret.value = IF arg.date \in DOMAIN saved THEN saved[arg.date]
                   ELSE EmptyRecord

\* C2: delete_entry(d) of a date that is not in the collection returns False
\* and leaves the store as it is; of a date that is in the collection, it
\* takes no other key away, changes no other record, and when it returns
\* True the key d is gone
C2_Delete ==
  [][op' = "delete_entry" =>
       LET d == arg'.date
       IN  IF ~Has(Persisted, d)
           THEN ret'.value = FALSE /\ Store' = Store
           ELSE /\ \A k \in Keys(Persisted) \ {d} :
                     Has(Persisted', k) /\ Get(Persisted', k) = Get(Persisted, k)
                /\ Keys(Persisted') \subseteq Keys(Persisted)
                /\ ret'.value = TRUE => ~Has(Persisted', d)]_vars

\* the store as save_data finds it: _ensure_data_file has moved a corrupted
\* file away before it calls save_data
StoreAtSave == IF op' = "construct" THEN MissingFile ELSE Store

\* the store that holds the whole of a collection
Written(data) ==
  IF use_cloud THEN DataFrame(Values(data)) ELSE ValidFile(data)

\* C3: a save_data call either returns True and the store holds the whole of
\* its argument, or returns False and the store is what it was before
C3_SaveAtomic ==
  [][last_save'.called =>
       \/ last_save'.result /\ Store' = Written(last_save'.data)
       \/ ~last_save'.result /\ Store' = StoreAtSave]_vars

\* C4: load_data never raises, and returns {} when the read fails: the local
\* file is missing or corrupted, the transport fails, the sheet has no
\* 'date' column
ReadFails ==
  IF use_cloud
  THEN ~arg.netOk \/ (sheet # <<>> /\ "date" \notin DOMAIN sheet[1])
  ELSE file.state # "valid"

C4_LoadNeverRaises ==
  op = "load_data" =>
    /\ ~ret.raised
    /\ ReadFails => ret.value = EmptyDict

C4_Witness ==
  /\ op = "load_data"
  /\ ~use_cloud
  /\ file.state = "corrupt"

\* C5: a save_entry(d, r) that follows a successful save_entry(d, r) leaves
\* the persisted collection as it is
C5_Idempotent ==
  [][(op = "save_entry" /\ ret.value = TRUE /\ op' = "save_entry" /\ arg' = arg)
       => Persisted' = Persisted]_vars

\* C6: the rows of convert_to_dataframe are in ascending calendar order, one
\* row per date key of the collection, whatever the insertion order
C6_Sorted ==
  (op = "convert_to_dataframe" /\ ~ret.raised) =>
    LET t == ret.value
    IN  /\ {t[i].k : i \in DOMAIN t} = Keys(Loaded)
        /\ Len(t) = Cardinality(Keys(Loaded))
        /\ \A i, j \in DOMAIN t :
             (i < j /\ IsDateKey(t[i].k) /\ IsDateKey(t[j].k))
               => CalLess(DateOf(t[i].k), DateOf(t[j].k))

C6_Witness ==
  /\ op = "convert_to_dataframe"
  /\ Len(ret.value) >= 2
  /\ Len(Loaded) >= 2
  /\ IsDateKey(Loaded[1].k) /\ IsDateKey(Loaded[2].k)
  /\ CalLess(DateOf(Loaded[2].k), DateOf(Loaded[1].k))

\* C7: get_trigger_foods returns exactly the dates whose symptom_severity is
\* >= the threshold, each with the day's diet note, or with the marker when
\* the day has no note
HasNote(rec) == "diet_notes" \in DOMAIN rec /\ IsStr(rec["diet_notes"])

C7_Triggers ==
  (op = "get_trigger_foods" /\ ~ret.raised) =>
    LET high == {k \in Keys(Loaded) : HighDay(Get(Loaded, k), arg.threshold)}
    IN  AsMap(ret.value) =
          [k \in high |-> IF HasNote(Get(Loaded, k))
                          THEN Get(Loaded, k)["diet_notes"]
                          ELSE Str(NoMealsRecorded)]

\* C8: each mean of get_statistics is the mean over the records that hold
\* the field, rounded to one decimal; a record without the field is left out
PresentIn(data, f) ==
  {i \in DOMAIN data : f \in DOMAIN data[i].v /\ IsNum(data[i].v[f])}

RECURSIVE SumPresent(_, _, _)
SumPresent(data, f, is) ==
  IF is = {} THEN 0
  ELSE LET i == CHOOSE x \in is : TRUE
       IN  data[i].v[f][2] + SumPresent(data, f, is \ {i})

MeanOfPresent(data, f) ==
  Num(Round1(SumPresent(data, f, PresentIn(data, f)),
             Cardinality(PresentIn(data, f))))

C8_MeanOfPresent ==
  (op = "get_statistics" /\ ~ret.raised /\ Loaded # EmptyDict) =>
    /\ PresentIn(Loaded, "symptom_severity") # {} =>
         ret.value.avg_severity = MeanOfPresent(Loaded, "symptom_severity")
    /\ PresentIn(Loaded, "sleep_hours") # {} =>
         ret.value.avg_sleep = MeanOfPresent(Loaded, "sleep_hours")
    /\ PresentIn(Loaded, "stress_level") # {} =>
         ret.value.avg_stress = MeanOfPresent(Loaded, "stress_level")

\* the samples of column c in the 7 rows that end at row i of table t
Samples(t, c, i) == {j \in DOMAIN t : j <= i /\ i - j < 7 /\ IsNum(Cell(t, j, c))}

RECURSIVE SumSamples(_, _, _)
SumSamples(t, c, js) ==
  IF js = {} THEN 0
  ELSE LET j == CHOOSE x \in js : TRUE
       IN  Cell(t, j, c)[2] + SumSamples(t, c, js \ {j})

\* the rolling column avg of table t holds, in every row, the mean of the
\* samples of column c in the trailing window, and nothing when it has none
RollingColumn(t, c, avg) ==
  /\ avg \in Columns(t)
  /\ \A i \in DOMAIN t :
       LET js == Samples(t, c, i)
       IN  IF js = {} THEN IsNaN(t[i].v[avg])
           ELSE t[i].v[avg] = <<"avg", SumSamples(t, c, js), Cardinality(js)>>

NoColumn(data, c) == \A i \in DOMAIN data : c \notin DOMAIN data[i].v

LagPairs == {<<"stress_lag1", "stress_level">>, <<"sleep_lag1", "sleep_hours">>,
             <<"severity_lag1", "symptom_severity">>}

C10_Lag ==
  (op = "get_processed_data" /\ ~ret.raised /\ ret.value # <<>>) =>
    \A p \in LagPairs :
      /\ IsNaN(Cell(ret.value, 1, p[1]))
      /\ \A i \in DOMAIN ret.value :
           i > 1 => Cell(ret.value, i, p[1]) = Cell(ret.value, i - 1, p[2])

C10_Witness ==
  /\ op = "get_processed_data"
  /\ ~ret.raised
  /\ Len(ret.value) >= 3
  /\ \A p \in LagPairs : p[1] \in Columns(ret.value)
  /\ \E i \in DOMAIN ret.value :
       i > 1 /\ IsNum(ret.value[i].v["stress_lag1"])
             /\ IsNaN(ret.value[i].v["sleep_lag1"])

\* ------------------------------------------------------ C11: data gating
\* the recorded days that lie within the days the page charts
InWindow ==
  {k \in Keys(Persisted) :
     /\ Ordinal(DateOf(k)) <= arg.today
     /\ arg.today - Ordinal(DateOf(k)) < AnalyticsDays}

\* C11: whenever the analytics page renders, with exactly 2 recorded days in
\* total the correlation heatmap and the lag analysis both report
\* insufficient data, and with exactly 3 recorded days both compute
C11_Gating ==
  (op = "page_analytics" /\ ~ret.raised) =>
    /\ Len(Persisted) = 2 =>
         ret.value.heatmap.kind = "empty" /\ ret.value.lagged.kind = "empty"
    /\ Len(Persisted) = 3 =>
         ret.value.heatmap.kind = "heatmap" /\ ret.value.lagged.kind = "bar"

\* --------------------------------------------------------- C12: AI result
\* the result conforms to the response schema of the mode
Conforms(mode, result) ==
  /\ result.json = "object"
  /\ result.keys = IF mode = "daily" THEN DailyKeys ELSE WeeklyKeys

TaggedFailure(result) ==
  /\ result.json = "object"
  /\ "error" \in result.keys
  /\ result.error \in {"API Key Missing", "API Error", "Parsing Error"}

\* C12: analyze_daily and analyze_weekly never raise, and return either an
\* object of the mode's response schema or a failure tagged "API Key
\* Missing", "API Error" or "Parsing Error"
C12_ConformingOrTagged ==
  op \in {"analyze_daily", "analyze_weekly"} =>
    /\ ~ret.raised
    /\ Conforms(arg.prompt.mode, ret.value) \/ TaggedFailure(ret.value)

\* ------------------------------------------------ C13: non-numeric values
\* some record holds a string in a numeric field
HasNonNumeric ==
  \E i \in DOMAIN Loaded, f \in StatFields : IsStr(Field(Loaded[i].v, f, Num(0)))

\* the row of the returned table that belongs to the date k
RowOf(t, k) == t[CHOOSE i \in DOMAIN t : t[i].k = k].v

\* C13: a record with a non-numeric value in symptom_severity, sleep_hours
\* or stress_level makes neither get_statistics nor get_processed_data
\* raise, and get_processed_data holds the value as missing
C13_NonNumericCoerced ==
  /\ (op = "get_statistics" /\ HasNonNumeric) => ~ret.raised
  /\ (op = "get_processed_data" /\ HasNonNumeric) =>
       IF ret.raised
       THEN Len(Loaded) >= MinRowsForRolling
            /\ (NoColumn(Loaded, "symptom_severity") \/ NoColumn(Loaded, "stress_level"))
       ELSE \A i \in DOMAIN Loaded, f \in StatFields :
              IsStr(Field(Loaded[i].v, f, Num(0))) =>
                IsNaN(RowOf(ret.value, Loaded[i].k)[f])

\* ------------------------------------------------- C14: empty statistics
ZeroStatistics == [avg_severity |-> Num(0), avg_sleep |-> Num(0), avg_stress |-> Num(0)]

\* C14: get_statistics on an empty collection returns the three averages
\* as 0.0 and does not raise, also when the collection is empty because the
\* load failed
C14_EmptyStatistics ==
  (op = "get_statistics" /\ Loaded = EmptyDict) =>
    ~ret.raised /\ ret.value = ZeroStatistics

\* get_statistics has answered with zeros over a store that holds records,
\* its load having failed
C14_Witness ==
  /\ op = "get_statistics"
  /\ use_cloud /\ ~arg.netOk /\ sheet # <<>>
  /\ ret = Returned(ZeroStatistics)

\* --------------------------------------------- C15: bounds of the average
\* the severities of the current row and of up to 6 rows before it
WindowValues(t, i) ==
  {Cell(t, j, "symptom_severity")[2] : j \in Samples(t, "symptom_severity", i)}

\* sum / count lies between lo and hi
MeanWithin(avg, lo, hi) == avg[3] * lo <= avg[2] /\ avg[2] <= avg[3] * hi

\* C15: every severity_7d_avg value lies between the least and the greatest
\* symptom_severity of the current row and of up to 6 rows before it
C15_AverageWithinWindow ==
  (op = "get_processed_data" /\ ~ret.raised /\ "severity_7d_avg" \in Columns(ret.value)) =>
    \A i \in DOMAIN ret.value :
      LET avg == ret.value[i].v["severity_7d_avg"]
          vals == WindowValues(ret.value, i)
      IN  ~IsNaN(avg) =>
            /\ vals # {}
            /\ \E lo \in vals, hi \in vals :
                 /\ \A x \in vals : lo <= x /\ x <= hi
                 /\ MeanWithin(avg, lo, hi)

\* a table of more than 7 rows whose last average lies strictly inside the
\* bounds of its window, a row before the window holding a severity as well
C15_Witness ==
  /\ op = "get_processed_data"
  /\ ~ret.raised
  /\ Len(ret.value) > Window
  /\ LET n == Len(ret.value)
         avg == ret.value[n].v["severity_7d_avg"]
         vals == WindowValues(ret.value, n)
     IN  /\ ~IsNaN(avg)
         /\ Cardinality(vals) > 1
         /\ \A x \in vals : avg[3] * x # avg[2]
         /\ \E j \in 1..(n - Window) : IsNum(Cell(ret.value, j, "symptom_severity"))

\* --------------------------------------------- C16: two sessions, one store
\* C16: the save of two sessions is last-write-wins: after a save_data that
\* returned True the store holds exactly the collection the session had
\* loaded and updated, so that a date another session saved between the load
\* and the save_data of this session, and which this session had not loaded,
\* is absent
C16_LastWriteWins ==
  (op = "save_entry_save" /\ last_save.result) =>
    /\ Store = Written(arg.data)
    /\ \A d \in arg.others : ~Has(arg.data, d) => ~Has(Persisted, d)

\* load1, load2, save1, save2 on the empty store with two different dates:
\* the store ends with the date of session 2 only
C16_Witness ==
  /\ op = "save_entry_save" /\ last_save.result
  /\ arg.session = 2 /\ arg.date = Key(2)
  /\ arg.others = {Key(1)}
  /\ Keys(Persisted) = {Key(2)}

\* ------------------------------------------------- C17: who writes the store
DerivedColumns ==
  {"severity_7d_avg", "stress_7d_avg", "stress_lag1", "sleep_lag1", "severity_lag1"}

\* no stored record holds a derived column
NoDerivedStored ==
  /\ \A i \in DOMAIN sheet : DOMAIN sheet[i] \cap DerivedColumns = {}
  /\ \A i \in DOMAIN file.data : DOMAIN file.data[i].v \cap DerivedColumns = {}

\* C17 as claimed: every operation other than save_entry and delete_entry,
\* the construction of a DataManager included, leaves the backing store as
\* it was, and no derived column is ever stored
C17_OnlySaveAndDelete ==
  [][ /\ op' \notin {"save_entry", "delete_entry"} => Store' = Store
      /\ NoDerivedStored' ]_vars

\* C17 as amended: the reading operations leave the backing store as it
\* was; the construction of a DataManager leaves it as it was in cloud mode
\* and when the local file parses, and otherwise writes the empty collection
\* to the local file, which changes the file but not the collection that
\* load_data returns; no derived column is ever stored
C17_ReadsLeaveStore ==
  [][ /\ op' \notin {"save_entry", "delete_entry", "construct"} => Store' = Store
      /\ op' = "construct" =>
           /\ Persisted' = Persisted
           /\ sheet' = sheet
           /\ IF use_cloud \/ file.state = "valid"
              THEN file' = file
              ELSE /\ file' \in {ValidFile(EmptyDict), MissingFile, CorruptFile}
                   /\ last_save'.result <=> file' = ValidFile(EmptyDict)
      /\ NoDerivedStored' ]_vars

\* get_processed_data has returned a table with lag columns over a store
\* that holds records
C17_Witness ==
  /\ op = "get_processed_data"
  /\ ~ret.raised
  /\ Persisted # EmptyDict
  /\ "severity_lag1" \in Columns(ret.value)
  /\ NoDerivedStored

\* ------------------------------------------------ C18: lagged correlation
\* the table the lag analysis was given
Processed == get_processed_data(Loaded).value

\* Pearson's r of the columns a and b exists: two rows complete in both
\* differ in a, and two differ in b
Computable(t, a, b) ==
  /\ \E i, j \in CompleteRows(t, a, b) : Cell(t, i, a) # Cell(t, j, a)
  /\ \E i, j \in CompleteRows(t, a, b) : Cell(t, i, b) # Cell(t, j, b)

FeatureSet == {Features[i] : i \in DOMAIN Features}

\* C18: over a table of at least 3 rows the lag analysis has no entry for a
\* candidate whose column the table lacks, and it reports insufficient data
\* whenever no candidate has a computable correlation
C18_LaggedCorrelation ==
  (op = "create_lagged_correlation_chart" /\ ~ret.raised /\ Len(Processed) >= 3) =>
    /\ ret.value.kind = "bar" =>
         \A f \in FeatureSet :
           f.col \notin Columns(Processed) => ~Has(ret.value.correlations, f.label)
    /\ (\A f \in FeatureSet : ~Computable(Processed, "symptom_severity", f.col)) =>
         ret.value.kind = "empty"

\* ------------------------------------------- C19: the frame of save_entry
\* C19: a save_entry(d, r) whose save_data returned True, its load having
\* failed or not, leaves every other date that was persisted before the
\* call persisted after it
C19_OtherDatesKept ==
  [][ (op' = "save_entry" /\ last_save'.called /\ last_save'.result) =>
        \A k \in Keys(Persisted) \ {arg'.date} : Has(Persisted', k) ]_vars

====
